---- MODULE Spec2Model ----
(***************************************************************************)
(* A model of ssh_task_runner.py: the Command value, the construction of   *)
(* an SSHTaskRunner (configuration, connection) and SSHTaskRunner.execute  *)
(* with _run_command and _log_result, as a state machine over one runner   *)
(* instance and its paramiko session.                                      *)
(*                                                                         *)
(* Python strings are sequences of one-character strings, so that build(), *)
(* str.strip() and truthiness are computed and not assumed.  None is the   *)
(* value NoneVal, which is no sequence of characters of the alphabet.      *)
(***************************************************************************)
EXTENDS Integers, Sequences, FiniteSets, TLC

(***************************************************************************)
(* Bounds of the model.                                                    *)
(***************************************************************************)
\* longest sequence handed to execute()
MaxLen == 3
\* longest sequence handed to execute() when the entries range over every
\* combination of text, description and directory
WideLen == 1
\* number of execute() calls made on the one runner instance
MaxRuns == 2

(***************************************************************************)
(* Python values.                                                          *)
(***************************************************************************)
NoneVal == <<"None">>

\* characters str.strip() removes
Whitespace == {" ", "\n"}

\* truthiness of an Optional[str]: None and "" are falsy
Truthy(s) == s # NoneVal /\ s # <<>>

RECURSIVE lstrip(_)
lstrip(s) == IF s # <<>> /\ Head(s) \in Whitespace THEN lstrip(Tail(s)) ELSE s

RECURSIVE rstrip(_)
rstrip(s) ==
  IF s # <<>> /\ s[Len(s)] \in Whitespace THEN rstrip(SubSeq(s, 1, Len(s) - 1)) ELSE s

\* str.strip()
strip(s) == rstrip(lstrip(s))

(***************************************************************************)
(* class Command                                                           *)
(***************************************************************************)
\* Command.__init__: description defaults to "", directory to None
Command(command, description, directory) ==
  [kind |-> "Command", command |-> command, description |-> description,
   directory |-> directory]

\* a variant that joins the two commands with ";", so that the command runs
\* even when the cd fails
buildSemicolon(c) ==
  IF Truthy(c.directory)
    THEN <<"c", "d", " ">> \o c.directory \o <<";", " ">> \o c.command
    ELSE c.command

\* Command.build
build(c) ==
  IF Truthy(c.directory)
    THEN <<"c", "d", " ">> \o c.directory \o <<" ", "&", "&", " ">> \o c.command
    ELSE c.command

\* isinstance(step, Command)
IsCommand(step) == step.kind = "Command"

(***************************************************************************)
(* Inputs: the entries a caller may put in a sequence.                     *)
(***************************************************************************)
\* Command("ls", "S", "/h"), as main() builds its commands
cmdDir == Command(<<"l", "s">>, <<"S">>, <<"/", "h">>)
\* Command("pwd") -- no description, no directory
cmdPlain == Command(<<"p", "w", "d">>, <<>>, NoneVal)
\* an entry that is no Command (say, a dict or a str)
notACommand ==
  [kind |-> "Other", command |-> <<>>, description |-> <<>>, directory |-> NoneVal]

Steps == {cmdDir, cmdPlain, notACommand}

RECURSIVE SeqsUpTo(_, _)
SeqsUpTo(S, n) ==
  IF n = 0 THEN {<<>>}
  ELSE LET shorter == SeqsUpTo(S, n - 1)
       IN shorter \cup {Append(s, x) : s \in {t \in shorter : Len(t) = n - 1}, x \in S}

\* the lists a caller may hand to execute()
Inputs == SeqsUpTo(Steps, MaxLen)

(***************************************************************************)
(* The remote side, as paramiko presents it.                               *)
(***************************************************************************)
\* a byte no UTF-8 text holds: bytes.decode() raises UnicodeDecodeError on it
BadByte == "\\xff"
\* what stdout.read() may return
StdoutBytes == {<<>>, <<"o", "\n">>, <<BadByte>>}
\* what stderr.read() may return
StderrBytes == {<<>>, <<"\n">>, <<" ", "w">>}
\* what recv_exit_status() may return: the remote exit code, or -1 when the
\* server closed the channel without sending one
ExitCodes == {-1, 0, 2}
\* str(e) of an exception raised by the transport: an exception built without
\* arguments has the empty message
ErrMsgs == {<<>>, <<" ">>, <<"E", "r", "r">>}
\* str(e) of the exception exec_command raises on a client that was closed
\* (close() drops the client's transport)
ClosedMsg == <<"c", "l", "o", "s", "e", "d">>
\* str(e) of the UnicodeDecodeError raised by decode()
DecodeErrMsg == <<"c", "o", "d", "e", "c">>
\* str(e) of ValueError("Invalid step in sequence.")
InvalidStepMsg == <<"I", "n", "v", "a", "l", "i", "d">>

Decodable(bytes) == \A i \in 1..Len(bytes) : bytes[i] # BadByte
\* bytes.decode() of decodable bytes: each byte of the alphabet is the
\* character of the same name; undecodable bytes raise (see ReadStdout)
decode(bytes) == bytes

VARIABLES
  init,        \* construction: "new", "configured", "ready", "failed"
  initError,   \* what __init__ raised: "none", "config", "connect"
  connects,    \* calls of ssh.connect()
  closed,      \* main_ssh.close() has been called on the session
  closes,      \* calls of main_ssh.close() over the instance's lifetime
  runs,        \* calls of execute() so far
  pc,          \* position in execute()
  sequence,    \* the argument of the current execute() call
  idx,         \* position of the for loop (1-based)
  full_cmd,    \* _run_command's local
  description, \* _run_command's local
  out,         \* _run_command's local
  err,         \* _run_command's local
  channel,     \* what has been done on the current command's channel, in order:
               \* "exec_command", "stdout", "stderr", "exit_status"
  exc,         \* the pending exception's str(e), <<msg>> or <<>>
  returned,    \* what _run_command returned in this run, each result with the
               \* exception its except branch caught (<<>> when none was raised)
  result,      \* <<>> or <<the dict returned by _run_command>>
  trace,       \* the run's transport calls and log records, in order
  state,       \* "Ready", "Running", "Completed", "Aborted", "Failed"
  signal,      \* what the caller got: "pending", "None", "ValueError"
  observed     \* the (signal, state) pairs the caller has seen

vars == <<init, initError, connects, closed, closes, runs, pc, sequence, idx,
          full_cmd, description, out, err, channel, exc, returned, result, trace,
          state, signal, observed>>

ctorVars == <<init, initError, connects>>
sessionVars == <<closed, closes>>
localVars == <<full_cmd, description, out, err>>

(***************************************************************************)
(* Records of the trace.                                                   *)
(***************************************************************************)
ExecEvent(cmd) ==
  [ev |-> "exec_command", level |-> "", tag |-> "", text |-> cmd, status |-> 0]
CloseEvent ==
  [ev |-> "close", level |-> "", tag |-> "", text |-> <<>>, status |-> 0]
Log(level, tag, text, status) ==
  [ev |-> "log", level |-> level, tag |-> tag, text |-> text, status |-> status]

Init ==
  /\ init = "new"
  /\ initError = "none"
  /\ connects = 0
  /\ closed = FALSE
  /\ closes = 0
  /\ runs = 0
  /\ pc = "idle"
  /\ sequence = <<>>
  /\ idx = 1
  /\ full_cmd = <<>>
  /\ description = <<>>
  /\ out = <<>>
  /\ err = <<>>
  /\ channel = <<>>
  /\ exc = <<>>
  /\ returned = <<>>
  /\ result = <<>>
  /\ trace = <<>>
  /\ state = "Ready"
  /\ signal = "pending"
  /\ observed = {}

runVars == <<runs, pc, sequence, idx, full_cmd, description, out, err, channel,
             exc, returned, result, trace, state, signal, observed>>

(***************************************************************************)
(* SSHTaskRunner.__init__                                                  *)
(***************************************************************************)
\* _load_config: toml.load returns
LoadConfig ==
  /\ init = "new"
  /\ init' = "configured"
  /\ UNCHANGED <<initError, connects, sessionVars, runVars>>

\* a variant without the raise: the error is logged and __init__ goes on
LoadConfigFailsSwallowed ==
  /\ init = "new"
  /\ init' = "configured"
  /\ initError' = "config"
  /\ UNCHANGED <<connects, sessionVars, runVars>>

\* _load_config: toml.load raises; logged and re-raised out of __init__
LoadConfigFails ==
  /\ init = "new"
  /\ init' = "failed"
  /\ initError' = "config"
  /\ UNCHANGED <<connects, sessionVars, runVars>>

\* _create_connection: ssh.connect returns
CreateConnection ==
  /\ init = "configured"
  /\ connects' = connects + 1
  /\ init' = "ready"
  /\ UNCHANGED <<initError, sessionVars, runVars>>

\* _create_connection: ssh.connect (or a missing config key) raises
CreateConnectionFails ==
  /\ init = "configured"
  /\ \E attempted \in {0, 1} : connects' = connects + attempted
  /\ init' = "failed"
  /\ initError' = "connect"
  /\ UNCHANGED <<sessionVars, runVars>>

(***************************************************************************)
(* SSHTaskRunner._run_command                                              *)
(***************************************************************************)
\* the dict _run_command returns from its try block
OkResult(desc, cmd, o, e, code) ==
  [description |-> desc, command |-> cmd, stdout |-> o, stderr |-> e,
   exit_status |-> code]

\* a variant that loses the exception's message
ErrorResultDropsMessage(desc, cmd, msg) ==
  [description |-> desc, command |-> cmd, stdout |-> <<>>, stderr |-> <<>>,
   exit_status |-> -1]

\* a variant that marks the failure with exit status 1
ErrorResultExitOne(desc, cmd, msg) ==
  [description |-> desc, command |-> cmd, stdout |-> <<>>, stderr |-> msg,
   exit_status |-> 1]

\* the dict _run_command returns from its except block
ErrorResult(desc, cmd, msg) ==
  [description |-> desc, command |-> cmd, stdout |-> <<>>, stderr |-> msg,
   exit_status |-> -1]

\* a variant without the default
DescriptionOfNoDefault(c) == c.description

\* description = command.description or command.command
DescriptionOf(c) == IF c.description # <<>> THEN c.description ELSE c.command

\* _run_command returns: its locals are gone
LocalsDropped ==
  /\ full_cmd' = <<>>
  /\ description' = <<>>
  /\ out' = <<>>
  /\ err' = <<>>

\* an exception leaves the try block of _run_command
Raise(msg) ==
  /\ exc' = <<msg>>
  /\ pc' = "run_except"

(***************************************************************************)
(* SSHTaskRunner._log_result                                               *)
(***************************************************************************)
\* a variant that logs every stderr as an error
StderrLevelAlwaysError(r) == "ERROR"

\* the level of the STDERR record
StderrLevel(r) == IF r.exit_status = 0 THEN "INFO" ELSE "ERROR"

StderrTag(r) == IF r.exit_status = 0 THEN "STDERR (informational)" ELSE "STDERR"

\* a variant of execute() that tests the exit status before it logs: a failed
\* command's result is never reported
LogRecordsSuccessOnly(r) ==
  IF r.exit_status # 0 THEN <<>>
  ELSE
    <<Log("INFO", "Command", r.description, r.exit_status),
      Log("INFO", "Exit status", <<>>, r.exit_status)>>
    \o (IF strip(r.stdout) # <<>>
          THEN <<Log("INFO", "STDOUT", strip(r.stdout), r.exit_status)>> ELSE <<>>)
    \o (IF strip(r.stderr) # <<>>
          THEN <<Log("INFO", "STDERR (informational)", strip(r.stderr), 0)>>
          ELSE <<>>)

\* the records _log_result emits for a result, in order
LogRecords(r) ==
  <<Log("INFO", "Command", r.description, r.exit_status),
    Log("INFO", "Exit status", <<>>, r.exit_status)>>
  \o (IF strip(r.stdout) # <<>>
        THEN <<Log("INFO", "STDOUT", strip(r.stdout), r.exit_status)>> ELSE <<>>)
  \o (IF strip(r.stderr) # <<>>
        THEN <<Log(StderrLevel(r), StderrTag(r), strip(r.stderr), r.exit_status)>>
        ELSE <<>>)

(***************************************************************************)
(* SSHTaskRunner.execute                                                   *)
(***************************************************************************)
\* a variant that takes only a positive exit status for a failure
ShouldAbortPositiveOnly(r) == r.exit_status > 0

\* a variant with the test inverted
ShouldAbortInverted(r) == r.exit_status = 0

\* if result["exit_status"] != 0
ShouldAbort(r) == r.exit_status # 0

\* a variant that validates the whole list before it runs anything
ExecuteValidatesFirst ==
  /\ init = "ready"
  /\ pc = "idle"
  /\ runs < MaxRuns
  /\ \E s \in Inputs :
       /\ sequence' = s
       /\ IF \A i \in 1..Len(s) : IsCommand(s[i])
            THEN pc' = "for" /\ exc' = <<>>
            ELSE pc' = "except" /\ exc' = <<InvalidStepMsg>>
  /\ runs' = runs + 1
  /\ idx' = 1
  /\ state' = "Running"
  /\ signal' = "pending"
  /\ trace' = <<>>
  /\ result' = <<>>
  /\ returned' = <<>>
  /\ UNCHANGED <<ctorVars, sessionVars, channel, localVars, observed>>

\* a caller invokes execute(sequence) on the constructed runner
Execute ==
  /\ init = "ready"
  /\ pc = "idle"
  /\ runs < MaxRuns
  /\ \E s \in Inputs : sequence' = s
  /\ runs' = runs + 1
  /\ idx' = 1
  /\ pc' = "for"
  /\ state' = "Running"
  /\ signal' = "pending"
  /\ trace' = <<>>
  /\ result' = <<>>
  /\ exc' = <<>>
  /\ returned' = <<>>
  /\ UNCHANGED <<ctorVars, sessionVars, channel, localVars, observed>>

\* a variant that stores the defaulted description back into the Command
EnterRunCommandWritesBack ==
  /\ pc = "for"
  /\ idx <= Len(sequence)
  /\ IsCommand(sequence[idx])
  /\ full_cmd' = build(sequence[idx])
  /\ description' = DescriptionOf(sequence[idx])
  /\ sequence' = [sequence EXCEPT ![idx].description = DescriptionOf(sequence[idx])]
  /\ out' = <<>>
  /\ err' = <<>>
  /\ channel' = <<>>
  /\ pc' = "exec_command"
  /\ UNCHANGED <<ctorVars, sessionVars, runs, idx, exc, returned, result, trace,
                 state, signal, observed>>

\* for step in sequence: the next entry is a Command; _run_command is entered
\* and computes full_cmd and description
EnterRunCommand ==
  /\ pc = "for"
  /\ idx <= Len(sequence)
  /\ IsCommand(sequence[idx])
  /\ full_cmd' = build(sequence[idx])
  /\ description' = DescriptionOf(sequence[idx])
  /\ out' = <<>>
  /\ err' = <<>>
  /\ channel' = <<>>
  /\ pc' = "exec_command"
  /\ UNCHANGED <<ctorVars, sessionVars, runs, sequence, idx, exc, returned, result, trace,
                 state, signal, observed>>

\* for step in sequence: the next entry is no Command; ValueError is raised
InvalidStep ==
  /\ pc = "for"
  /\ idx <= Len(sequence)
  /\ ~IsCommand(sequence[idx])
  /\ exc' = <<InvalidStepMsg>>
  /\ pc' = "except"
  /\ UNCHANGED <<ctorVars, sessionVars, channel, localVars, runs, sequence, idx, returned,
                 result, trace, state, signal, observed>>

\* the loop is exhausted: "All commands completed successfully."
LoopDone ==
  /\ pc = "for"
  /\ idx > Len(sequence)
  /\ trace' = Append(trace, Log("INFO", "completed", <<>>, 0))
  /\ state' = "Completed"
  /\ pc' = "finally"
  /\ UNCHANGED <<ctorVars, sessionVars, channel, localVars, runs, sequence, idx, exc,
                 returned, result, signal, observed>>

\* a variant that asks for the exit status without reading the output first
ExecCommandExitFirst ==
  /\ pc = "exec_command"
  /\ trace' = Append(trace, ExecEvent(full_cmd))
  /\ \/ /\ ~closed
        /\ channel' = <<"exec_command">>
        /\ pc' = "recv_exit_status"
        /\ UNCHANGED exc
     \/ ~closed /\ UNCHANGED channel /\ \E msg \in ErrMsgs : Raise(msg)
     \/ closed /\ UNCHANGED channel /\ Raise(ClosedMsg)
  /\ UNCHANGED <<ctorVars, sessionVars, localVars, runs, sequence, idx, returned,
                 result, state, signal, observed>>

\* ssh.exec_command(full_cmd): the command goes to the transport, which opens
\* a channel for it or raises; a closed client always raises
ExecCommand ==
  /\ pc = "exec_command"
  /\ trace' = Append(trace, ExecEvent(full_cmd))
  /\ \/ /\ ~closed
        /\ channel' = <<"exec_command">>
        /\ pc' = "read_stdout"
        /\ UNCHANGED exc
     \/ ~closed /\ UNCHANGED channel /\ \E msg \in ErrMsgs : Raise(msg)
     \/ closed /\ UNCHANGED channel /\ Raise(ClosedMsg)
  /\ UNCHANGED <<ctorVars, sessionVars, localVars, runs, sequence, idx, returned,
                 result, state, signal, observed>>

\* out = stdout.read().decode().strip()
ReadStdout ==
  /\ pc = "read_stdout"
  /\ \/ /\ channel' = Append(channel, "stdout")
        /\ \E bytes \in StdoutBytes :
             IF Decodable(bytes)
               THEN out' = strip(decode(bytes)) /\ pc' = "read_stderr" /\ UNCHANGED exc
               ELSE Raise(DecodeErrMsg) /\ UNCHANGED out
     \/ \E msg \in ErrMsgs : Raise(msg) /\ UNCHANGED <<out, channel>>
  /\ UNCHANGED <<ctorVars, sessionVars, full_cmd, description, err, runs, sequence,
                 idx, returned, result, trace, state, signal, observed>>

\* err = stderr.read().decode().strip()
ReadStderr ==
  /\ pc = "read_stderr"
  /\ \/ /\ channel' = Append(channel, "stderr")
        /\ \E bytes \in StderrBytes :
             IF Decodable(bytes)
               THEN err' = strip(decode(bytes)) /\ pc' = "recv_exit_status"
                    /\ UNCHANGED exc
               ELSE Raise(DecodeErrMsg) /\ UNCHANGED err
     \/ \E msg \in ErrMsgs : Raise(msg) /\ UNCHANGED <<err, channel>>
  /\ UNCHANGED <<ctorVars, sessionVars, full_cmd, description, out, runs, sequence,
                 idx, returned, result, trace, state, signal, observed>>

\* exit_status = stdout.channel.recv_exit_status(); the result is filled in
\* and returned
RecvExitStatus ==
  /\ pc = "recv_exit_status"
  /\ \E code \in ExitCodes :
       result' = <<OkResult(description, full_cmd, out, err, code)>>
  /\ returned' = Append(returned, [result |-> result'[1], error |-> <<>>])
  /\ channel' = Append(channel, "exit_status")
  /\ LocalsDropped
  /\ pc' = "log_result"
  /\ UNCHANGED <<ctorVars, sessionVars, runs, sequence, idx, exc, trace, state,
                 signal, observed>>

\* except Exception as e: the result is built from str(e) and returned
RunCommandExcept ==
  /\ pc = "run_except"
  /\ result' = <<ErrorResult(description, full_cmd, exc[1])>>
  /\ returned' = Append(returned, [result |-> result'[1], error |-> exc])
  /\ exc' = <<>>
  /\ LocalsDropped
  /\ pc' = "log_result"
  /\ UNCHANGED <<ctorVars, sessionVars, channel, runs, sequence, idx, trace, state, signal,
                 observed>>

\* self._log_result(result)
LogResult ==
  /\ pc = "log_result"
  /\ trace' = trace \o LogRecords(result[1])
  /\ pc' = "check"
  /\ UNCHANGED <<ctorVars, sessionVars, channel, localVars, runs, sequence, idx, exc,
                 returned, result, state, signal, observed>>

\* exit_status != 0: "Execution aborted due to command failure." and return
Abort ==
  /\ pc = "check"
  /\ ShouldAbort(result[1])
  /\ trace' = Append(trace, Log("ERROR", "aborted", <<>>, result[1].exit_status))
  /\ state' = "Aborted"
  /\ pc' = "finally"
  /\ UNCHANGED <<ctorVars, sessionVars, channel, localVars, runs, sequence, idx, exc,
                 returned, result, signal, observed>>

\* exit_status == 0: the loop goes on to the next entry
Continue ==
  /\ pc = "check"
  /\ ~ShouldAbort(result[1])
  /\ idx' = idx + 1
  /\ pc' = "for"
  /\ UNCHANGED <<ctorVars, sessionVars, channel, localVars, runs, sequence, exc, returned,
                 result, trace, state, signal, observed>>

\* a variant that drops the error and goes round the loop again, at the same
\* entry
ExceptRetries ==
  /\ pc = "except"
  /\ exc' = <<>>
  /\ pc' = "for"
  /\ UNCHANGED <<ctorVars, sessionVars, channel, localVars, runs, sequence, idx,
                 returned, result, trace, state, signal, observed>>

\* a variant without the raise: the error is logged and swallowed
ExceptSwallows ==
  /\ pc = "except"
  /\ trace' = Append(trace, Log("ERROR", "Unexpected error", exc[1], 0))
  /\ state' = "Failed"
  /\ exc' = <<>>
  /\ pc' = "finally"
  /\ UNCHANGED <<ctorVars, sessionVars, channel, localVars, runs, sequence, idx, returned,
                 result, signal, observed>>

\* except Exception as e: "Unexpected error: ..." and raise
Except ==
  /\ pc = "except"
  /\ trace' = Append(trace, Log("ERROR", "Unexpected error", exc[1], 0))
  /\ state' = "Failed"
  /\ pc' = "finally"
  /\ UNCHANGED <<ctorVars, sessionVars, channel, localVars, runs, sequence, idx, exc,
                 returned, result, signal, observed>>

\* a variant that closes after the loop instead of in a finally block: an
\* exception on its way out skips the close
FinallySkippedOnError ==
  /\ pc = "finally"
  /\ closed' = (closed \/ exc = <<>>)
  /\ closes' = (IF exc = <<>> THEN closes + 1 ELSE closes)
  /\ trace' = (IF exc = <<>>
                THEN trace \o <<CloseEvent, Log("INFO", "closed", <<>>, 0)>>
                ELSE trace)
  /\ channel' = <<>>
  /\ pc' = "leave"
  /\ UNCHANGED <<ctorVars, localVars, runs, sequence, idx, exc, returned, result,
                 state, signal, observed>>

\* finally: self.main_ssh.close() and "Main SSH connection closed."
Finally ==
  /\ pc = "finally"
  /\ closed' = TRUE
  /\ closes' = closes + 1
  /\ trace' = trace \o <<CloseEvent, Log("INFO", "closed", <<>>, 0)>>
  /\ channel' = <<>>
  /\ pc' = "leave"
  /\ UNCHANGED <<ctorVars, localVars, runs, sequence, idx, exc, returned, result,
                 state, signal, observed>>

\* a variant that never lets the exception out
SignalAlwaysNone(pending) == "None"

\* what execute() hands its caller: the pending exception, or None
SignalOf(pending) == IF pending # <<>> THEN "ValueError" ELSE "None"

\* control leaves execute(): the pending exception propagates, or None is
\* returned
Leave ==
  /\ pc = "leave"
  /\ signal' = SignalOf(exc)
  /\ observed' = observed \cup {<<SignalOf(exc), state>>}
  /\ exc' = <<>>
  /\ pc' = "idle"
  /\ UNCHANGED <<ctorVars, sessionVars, channel, localVars, runs, sequence, idx, returned,
                 result, trace, state>>

Next ==
  \/ LoadConfig
  \/ LoadConfigFails
  \/ CreateConnection
  \/ CreateConnectionFails
  \/ Execute
  \/ EnterRunCommand
  \/ InvalidStep
  \/ LoopDone
  \/ ExecCommand
  \/ ReadStdout
  \/ ReadStderr
  \/ RecvExitStatus
  \/ RunCommandExcept
  \/ LogResult
  \/ Abort
  \/ Continue
  \/ Except
  \/ Finally
  \/ Leave

Spec == Init /\ [][Next]_vars

(***************************************************************************)
(* Progress.  execute() runs in one thread with nothing to wait for but    *)
(* the transport: a local step that can be taken is taken.  The blocking   *)
(* calls on the transport return or raise provided the remote command      *)
(* finishes or the transport fails; there is no timeout.                   *)
(***************************************************************************)
LocalStep ==
  \/ EnterRunCommand
  \/ InvalidStep
  \/ LoopDone
  \/ RunCommandExcept
  \/ LogResult
  \/ Abort
  \/ Continue
  \/ Except
  \/ Finally
  \/ Leave

\* exec_command, stdout.read(), stderr.read(), recv_exit_status()
TransportStep ==
  \/ ExecCommand
  \/ ReadStdout
  \/ ReadStderr
  \/ RecvExitStatus

LiveSpec == Init /\ [][Next]_vars /\ WF_vars(LocalStep) /\ WF_vars(TransportStep)

(***************************************************************************)
(* The same runner, called with short lists whose Commands range over      *)
(* every combination of text, description and directory.                   *)
(***************************************************************************)
\* Command(command, ...)
WideTexts == {<<"l", "s">>, <<"p">>}
\* Command(..., description, ...): the default "", or a given text
WideDescriptions == {<<>>, <<"S">>}
\* Command(..., directory): the default None, or a given str, "" included
WideDirectories == {NoneVal, <<>>, <<"/", "h">>}

WideCommands ==
  {Command(t, d, dir) : t \in WideTexts, d \in WideDescriptions,
                        dir \in WideDirectories}

WideInputs == SeqsUpTo(WideCommands \cup {notACommand}, WideLen)

\* a caller invokes execute(sequence) on the constructed runner
ExecuteWide ==
  /\ init = "ready"
  /\ pc = "idle"
  /\ runs < MaxRuns
  /\ \E s \in WideInputs : sequence' = s
  /\ runs' = runs + 1
  /\ idx' = 1
  /\ pc' = "for"
  /\ state' = "Running"
  /\ signal' = "pending"
  /\ trace' = <<>>
  /\ result' = <<>>
  /\ exc' = <<>>
  /\ returned' = <<>>
  /\ UNCHANGED <<ctorVars, sessionVars, channel, localVars, observed>>

NextWide ==
  \/ LoadConfig
  \/ LoadConfigFails
  \/ CreateConnection
  \/ CreateConnectionFails
  \/ ExecuteWide
  \/ EnterRunCommand
  \/ InvalidStep
  \/ LoopDone
  \/ ExecCommand
  \/ ReadStdout
  \/ ReadStderr
  \/ RecvExitStatus
  \/ RunCommandExcept
  \/ LogResult
  \/ Abort
  \/ Continue
  \/ Except
  \/ Finally
  \/ Leave

SpecWide == Init /\ [][NextWide]_vars

(***************************************************************************)
(* What a run shows: the transport calls and log records of the trace.     *)
(***************************************************************************)
\* control is back at the caller of execute()
Returned == pc = "idle" /\ runs > 0

\* the exec_command calls of the run, in order
Dispatched == SelectSeq(trace, LAMBDA e : e.ev = "exec_command")

\* the strings they were given
DispatchedCmds == [i \in 1..Len(Dispatched) |-> Dispatched[i].text]

\* the built strings of the first k entries of the list
BuiltPrefix(k) == [i \in 1..k |-> build(sequence[i])]

\* the close() calls of the run
Closes == SelectSeq(trace, LAMBDA e : e.ev = "close")

\* the transport calls of the run, in order
TransportCalls == SelectSeq(trace, LAMBDA e : e.ev \in {"exec_command", "close"})

AllCommands == \A i \in 1..Len(sequence) : IsCommand(sequence[i])

AllZero == \A i \in 1..Len(returned) : returned[i].result.exit_status = 0

(***************************************************************************)
(* C1: the commands given to the transport are, in order and without a     *)
(* gap, the built strings of a prefix of the list, and once a command has  *)
(* come back with an exit status other than 0 (-1 included) it is the last *)
(* one dispatched.                                                         *)
(***************************************************************************)
C1_DispatchIsStrictPrefix ==
  LET sent == DispatchedCmds IN
    /\ Len(sent) <= Len(sequence)
    /\ \A i \in 1..Len(sent) : IsCommand(sequence[i]) /\ sent[i] = build(sequence[i])
    /\ \A i \in 1..Len(returned) :
         returned[i].result.exit_status # 0 => Len(sent) = i

\* a finished run over three commands whose second command failed
C1_Witness ==
  /\ Returned
  /\ Len(sequence) = 3 /\ AllCommands
  /\ Len(returned) = 2
  /\ returned[1].result.exit_status = 0
  /\ returned[2].result.exit_status = -1
  /\ Len(DispatchedCmds) = 2

(***************************************************************************)
(* C2: a run calls close() exactly once, after its last exec_command and   *)
(* before control is back at the caller; until the finally block no close  *)
(* has been made.                                                          *)
(***************************************************************************)
C2_ClosedExactlyOnceLast ==
  /\ Len(Closes) <= 1
  /\ (runs > 0 /\ pc \in {"leave", "idle"}) =>
       /\ Len(Closes) = 1
       /\ TransportCalls[Len(TransportCalls)].ev = "close"
  /\ (runs > 0 /\ pc \notin {"leave", "idle"}) => Len(Closes) = 0
  /\ signal # "pending" => Len(Closes) = 1

\* a run that ended Failed, after a dispatched command, and is back at the caller
C2_Witness ==
  /\ Returned
  /\ state = "Failed"
  /\ Len(Dispatched) > 0
  /\ Len(Closes) = 1

(***************************************************************************)
(* C3: when every entry is a Command and every result came back with exit  *)
(* status 0, the run ends Completed and the transport was given the built  *)
(* string of every entry, once each, in list order.                        *)
(***************************************************************************)
C3_AllSucceedCompletes ==
  (Returned /\ AllCommands /\ AllZero) =>
    /\ state = "Completed"
    /\ DispatchedCmds = BuiltPrefix(Len(sequence))

\* a finished run over three commands that all returned 0
C3_Witness ==
  /\ Returned
  /\ Len(sequence) = 3 /\ AllCommands
  /\ Len(returned) = 3 /\ AllZero

(***************************************************************************)
(* C4 as claimed: a result built from a transport exception has exit       *)
(* status -1, stdout "" and a nonempty stderr holding the message,         *)
(* whatever the message is.                                                *)
(***************************************************************************)
C4_ErrorResultNonemptyStderr ==
  \A i \in 1..Len(returned) :
    returned[i].error # <<>> =>
      /\ returned[i].result.exit_status = -1
      /\ returned[i].result.stdout = <<>>
      /\ returned[i].result.stderr = returned[i].error[1]
      /\ returned[i].result.stderr # <<>>

(***************************************************************************)
(* C4 amended: a result built from a transport exception has exit status   *)
(* -1, stdout "" and stderr equal to str(e); stderr is nonempty exactly    *)
(* when the exception's message is.                                        *)
(***************************************************************************)
C4_ErrorResultHoldsMessage ==
  \A i \in 1..Len(returned) :
    returned[i].error # <<>> =>
      /\ returned[i].result.exit_status = -1
      /\ returned[i].result.stdout = <<>>
      /\ returned[i].result.stderr = returned[i].error[1]
      /\ (returned[i].result.stderr # <<>>) <=> (returned[i].error[1] # <<>>)

\* the transport raised with a message after stdout had been read, and the
\* result was built from it
C4_Witness ==
  /\ pc = "log_result"
  /\ Len(returned) = 2
  /\ returned[2].error = <<(<<"E", "r", "r">>)>>
  /\ result[1].stderr = <<"E", "r", "r">>

(***************************************************************************)
(* C5: a result built from a transport exception is the last of its run;   *)
(* no exception is pending after it; the run ends Aborted with the result  *)
(* reported, the abort logged, the session closed, nothing more dispatched *)
(* and None returned to the caller.                                        *)
(***************************************************************************)
AbortTail(r) ==
  LogRecords(r)
  \o <<Log("ERROR", "aborted", <<>>, r.exit_status), CloseEvent,
       Log("INFO", "closed", <<>>, 0)>>

EndsWith(s, t) ==
  /\ Len(s) >= Len(t)
  /\ SubSeq(s, Len(s) - Len(t) + 1, Len(s)) = t

C5_TransportErrorAborts ==
  \A i \in 1..Len(returned) :
    returned[i].error # <<>> =>
      /\ i = Len(returned)
      /\ exc = <<>>
      /\ pc # "except"
      /\ state \in {"Running", "Aborted"}
      /\ pc \in {"finally", "leave", "idle"} => state = "Aborted"
      /\ Len(DispatchedCmds) = i
      /\ Returned =>
           /\ signal = "None"
           /\ Len(Closes) = 1
           /\ EndsWith(trace, AbortTail(returned[i].result))

\* a finished run whose second of three commands met a transport exception
C5_Witness ==
  /\ Returned
  /\ closes = 1
  /\ Len(sequence) = 3 /\ AllCommands
  /\ Len(returned) = 2
  /\ returned[2].error # <<>>
  /\ state = "Aborted"

(***************************************************************************)
(* C6: when the loop stands at an entry that is no Command, only the       *)
(* entries before it have been dispatched; the run ends Failed; the        *)
(* ValueError stays pending through the close and reaches the caller after *)
(* it.  A run ends Failed in no other way.                                 *)
(***************************************************************************)
AtInvalidStep == runs > 0 /\ idx <= Len(sequence) /\ ~IsCommand(sequence[idx])

C6_InvalidStepFails ==
  /\ AtInvalidStep =>
       /\ DispatchedCmds = BuiltPrefix(idx - 1)
       /\ pc \in {"for", "except", "finally", "leave", "idle"}
       /\ pc \in {"finally", "leave", "idle"} => state = "Failed"
       /\ pc \in {"except", "finally", "leave"} =>
            exc = <<InvalidStepMsg>> /\ signal = "pending"
       /\ pc \in {"leave", "idle"} =>
            /\ Len(Closes) = 1
            /\ TransportCalls[Len(TransportCalls)].ev = "close"
       /\ pc = "idle" => signal = "ValueError"
  /\ state = "Failed" => AtInvalidStep

\* a finished run that met a non-Command as second of three entries
C6_Witness ==
  /\ Returned
  /\ Len(sequence) = 3 /\ idx = 2 /\ AtInvalidStep
  /\ Len(Dispatched) = 1
  /\ signal = "ValueError"

(***************************************************************************)
(* C7: in the trace, exec_command calls and "Command:" records alternate,  *)
(* the k-th record reporting the k-th result; once _log_result has run     *)
(* there are as many reports as dispatches; the abort record and the close *)
(* come after the last report.  Outcomes 0, 2 on three commands give       *)
(* Aborted, two reports and two dispatches.                                *)
(***************************************************************************)
IsReport(e) == e.ev = "log" /\ e.tag = "Command"

Reports == SelectSeq(trace, IsReport)

DispatchAndReport == SelectSeq(trace, LAMBDA e : e.ev = "exec_command" \/ IsReport(e))

ExitRecords == SelectSeq(trace, LAMBDA e : e.ev = "log" /\ e.tag = "Exit status")

C7_ReportedBeforeDecision ==
  LET both == DispatchAndReport
      nReports == Len(Reports)
      nDispatched == Len(Dispatched)
  IN
    /\ \A j \in 1..Len(both) :
         IF j % 2 = 1
           THEN both[j].ev = "exec_command"
           ELSE /\ IsReport(both[j])
                /\ Len(returned) >= j \div 2
                /\ both[j].text = returned[j \div 2].result.description
                /\ both[j].status = returned[j \div 2].result.exit_status
    /\ Len(ExitRecords) = nReports
    /\ pc \in {"check", "for", "except", "finally", "leave", "idle"} =>
         nReports = nDispatched
    /\ \A k \in 1..Len(trace) :
         (trace[k].tag = "aborted" \/ trace[k].ev = "close") =>
           /\ \A j \in k..Len(trace) :
                ~IsReport(trace[j]) /\ trace[j].ev # "exec_command"
           /\ Len(SelectSeq(SubSeq(trace, 1, k), IsReport)) = nDispatched
    /\ (/\ Returned
        /\ Len(sequence) = 3 /\ AllCommands
        /\ Len(returned) >= 2
        /\ returned[1].result.exit_status = 0
        /\ returned[2].result.exit_status = 2) =>
         state = "Aborted" /\ nReports = 2 /\ nDispatched = 2

\* the run of the example: [cmd1, cmd2, cmd3] with outcomes 0 and 2
C7_Witness ==
  /\ Returned
  /\ Len(sequence) = 3 /\ AllCommands
  /\ Len(returned) = 2
  /\ returned[1].result.exit_status = 0
  /\ returned[2].result.exit_status = 2
  /\ returned[2].error = <<>>
  /\ Len(Reports) = 2

(***************************************************************************)
(* C8 as claimed: every run ends in one of Completed, Aborted, Failed and  *)
(* what the caller gets from execute() tells which: two runs that hand the *)
(* caller the same thing ended in the same state.                          *)
(***************************************************************************)
Terminal == {"Completed", "Aborted", "Failed"}

C8_SignalTellsState ==
  /\ Returned => state \in Terminal
  /\ \A p, q \in observed : p[1] = q[1] => p[2] = q[2]

(***************************************************************************)
(* C8 amended: every run ends in exactly one of Completed, Aborted,        *)
(* Failed; execute() re-raises the error exactly when the run Failed and   *)
(* returns None for Completed and for Aborted alike, which only the log    *)
(* tells apart.                                                            *)
(***************************************************************************)
HasLog(tag) == \E k \in 1..Len(trace) : trace[k].ev = "log" /\ trace[k].tag = tag

C8_SignalTellsFailureOnly ==
  /\ (runs > 0 /\ ~Returned) => signal = "pending"
  /\ Returned =>
       /\ state \in Terminal
       /\ signal \in {"None", "ValueError"}
       /\ signal = "ValueError" <=> state = "Failed"
       /\ signal = "None" <=> state \in {"Completed", "Aborted"}
       /\ HasLog("completed") <=> state = "Completed"
       /\ HasLog("aborted") <=> state = "Aborted"
       /\ HasLog("Unexpected error") <=> state = "Failed"
  /\ \A p \in observed :
       /\ p[2] \in Terminal
       /\ p[1] = "ValueError" <=> p[2] = "Failed"
       /\ p[1] = "None" <=> p[2] \in {"Completed", "Aborted"}

\* the caller got None from a run that Completed and from a run that Aborted
C8_Witness ==
  /\ Returned
  /\ <<"None", "Completed">> \in observed
  /\ <<"None", "Aborted">> \in observed

(***************************************************************************)
(* C9 as claimed: a result has exit status -1 only if the transport raised *)
(* while running the command, and a result with exit status >= 0 came from *)
(* the remote side without an exception.                                   *)
(***************************************************************************)
C9_MinusOneReserved ==
  \A i \in 1..Len(returned) :
    /\ returned[i].result.exit_status = -1 => returned[i].error # <<>>
    /\ returned[i].result.exit_status >= 0 => returned[i].error = <<>>

(***************************************************************************)
(* C9 amended: every result built from a transport exception has exit      *)
(* status -1, and a result with exit status >= 0 came from the remote side *)
(* without an exception, carrying what recv_exit_status returned; -1 is    *)
(* also what recv_exit_status returns when the server sent no exit status. *)
(***************************************************************************)
C9_NonNegativeIsRemote ==
  \A i \in 1..Len(returned) :
    /\ returned[i].error # <<>> => returned[i].result.exit_status = -1
    /\ returned[i].result.exit_status >= 0 => returned[i].error = <<>>
    /\ returned[i].error = <<>> => returned[i].result.exit_status \in ExitCodes

\* a result with a remote exit code next to a run's earlier successes
C9_Witness ==
  /\ pc = "log_result"
  /\ Len(returned) = 2
  /\ returned[2].result.exit_status = 2
  /\ returned[2].error = <<>>

(***************************************************************************)
(* C10 as claimed: after _log_result, a result with nonempty stderr has    *)
(* its stderr logged, at INFO when the exit status is 0 and at ERROR       *)
(* otherwise; stdout and stderr are logged only when nonempty; the         *)
(* description and the exit status are logged for every result.            *)
(***************************************************************************)
LastExec == CHOOSE k \in 1..Len(trace) :
              /\ trace[k].ev = "exec_command"
              /\ \A j \in (k + 1)..Len(trace) : trace[j].ev # "exec_command"

\* the records _log_result emitted for the current result
LastRecords == SubSeq(trace, LastExec + 1, Len(trace))

Logged(tag) == {k \in 1..Len(LastRecords) : LastRecords[k].tag = tag}

StderrLogged == Logged("STDERR") \cup Logged("STDERR (informational)")

AlwaysLogged(r) ==
  /\ Len(LastRecords) >= 2
  /\ LastRecords[1] = Log("INFO", "Command", r.description, r.exit_status)
  /\ LastRecords[2] = Log("INFO", "Exit status", <<>>, r.exit_status)

C10_StderrSeverity ==
  pc = "check" =>
    LET r == result[1] IN
      /\ AlwaysLogged(r)
      /\ Logged("STDOUT") # {} => r.stdout # <<>>
      /\ StderrLogged # {} => r.stderr # <<>>
      /\ r.stderr # <<>> =>
           /\ Cardinality(StderrLogged) = 1
           /\ \A k \in StderrLogged :
                LastRecords[k].level = (IF r.exit_status = 0 THEN "INFO" ELSE "ERROR")

(***************************************************************************)
(* C10 amended: after _log_result, a result whose stderr is nonempty after *)
(* stripping whitespace has it logged once, stripped, at INFO when the     *)
(* exit status is 0 and at ERROR otherwise; stdout and stderr are logged   *)
(* exactly when nonempty after stripping; the description and the exit     *)
(* status are logged for every result.                                     *)
(***************************************************************************)
C10_StrippedStderrSeverity ==
  pc = "check" =>
    LET r == result[1] IN
      /\ AlwaysLogged(r)
      /\ Cardinality(Logged("STDOUT")) = (IF strip(r.stdout) # <<>> THEN 1 ELSE 0)
      /\ Cardinality(StderrLogged) = (IF strip(r.stderr) # <<>> THEN 1 ELSE 0)
      /\ \A k \in Logged("STDOUT") :
           LastRecords[k].level = "INFO" /\ LastRecords[k].text = strip(r.stdout)
      /\ \A k \in StderrLogged :
           /\ LastRecords[k].text = strip(r.stderr)
           /\ LastRecords[k].level = (IF r.exit_status = 0 THEN "INFO" ELSE "ERROR")
           /\ LastRecords[k].tag = "STDERR (informational)" <=> r.exit_status = 0

\* a successful command that wrote to stderr has just been logged
C10_Witness ==
  /\ pc = "check"
  /\ result[1].exit_status = 0
  /\ result[1].stderr = <<"w">>
  /\ \E k \in StderrLogged : LastRecords[k].level = "INFO"

(***************************************************************************)
(* C11 as claimed: for a Command whose directory is given (not None), the  *)
(* string handed to exec_command and kept in the result's command field is *)
(* "cd " + directory + " && " + text; for a Command without a directory it *)
(* is the text.                                                            *)
(***************************************************************************)
CdPrefixed(c) ==
  <<"c", "d", " ">> \o c.directory \o <<" ", "&", "&", " ">> \o c.command

C11_BuildByPresence ==
  LET sent == DispatchedCmds IN
    /\ \A i \in 1..Len(sent) :
         sent[i] = (IF sequence[i].directory # NoneVal
                      THEN CdPrefixed(sequence[i]) ELSE sequence[i].command)
    /\ \A i \in 1..Len(returned) : returned[i].result.command = sent[i]

(***************************************************************************)
(* C11 amended: for a Command whose directory is a nonempty string, the    *)
(* string handed to exec_command and kept in the result's command field is *)
(* "cd " + directory + " && " + text; for a Command whose directory is     *)
(* None or "" it is the text.                                              *)
(***************************************************************************)
C11_BuildByTruthiness ==
  LET sent == DispatchedCmds IN
    /\ \A i \in 1..Len(sent) :
         sent[i] = (IF sequence[i].directory \notin {NoneVal, <<>>}
                      THEN CdPrefixed(sequence[i]) ELSE sequence[i].command)
    /\ \A i \in 1..Len(returned) : returned[i].result.command = sent[i]

\* Command("ls", directory="/h") went to the transport as "cd /h && ls" and
\* came back in a result
C11_Witness ==
  /\ Len(returned) = 1
  /\ sequence[1].command = <<"l", "s">>
  /\ sequence[1].directory = <<"/", "h">>
  /\ DispatchedCmds[1] = <<"c", "d", " ", "/", "h", " ", "&", "&", " ", "l", "s">>
  /\ returned[1].result.command = DispatchedCmds[1]

(***************************************************************************)
(* C12: from the call of execute() to its return no step changes a field   *)
(* of an entry of the list, and the string build() gave when a command was *)
(* run is the string build() gives for that entry in every later state of  *)
(* the run and after it.                                                   *)
(***************************************************************************)
C12_CommandsUnchanged ==
  [][/\ pc # "idle" => sequence' = sequence
     /\ \A i \in 1..Len(returned') :
          returned'[i].result.command = build(sequence'[i])]_vars

\* a finished run over a Command without description: its fields are as the
\* caller built them and build() gives what was dispatched
C12_Witness ==
  /\ Returned
  /\ Len(returned) = 1
  /\ sequence[1] = Command(<<"p">>, <<>>, <<"/", "h">>)
  /\ DispatchedCmds[1] = build(sequence[1])

(***************************************************************************)
(* C13: the operations on a command's channel are a prefix of              *)
(* exec_command, stdout, stderr, exit_status, in that order; at most one   *)
(* dispatched command is without its result, and only while _run_command   *)
(* is at work on it; when the loop turns to a further entry, and when the  *)
(* next command is about to be dispatched, the command before it has had   *)
(* all four operations and returned 0.                                     *)
(***************************************************************************)
FullChannel == <<"exec_command", "stdout", "stderr", "exit_status">>

InFlight == Len(Dispatched) - Len(returned)

AtTransport == pc \in {"exec_command", "read_stdout", "read_stderr", "recv_exit_status"}

C14_RunTerminates ==
  /\ [](pc # "idle" /\ ~AtTransport => ENABLED LocalStep)
  /\ (pc # "idle") ~> (pc = "idle" /\ state \in Terminal /\ closed /\ Len(Closes) = 1)

\* a run of three commands has come back, the third having failed remotely
C14_Witness ==
  /\ Returned
  /\ closed
  /\ Len(returned) = 3
  /\ returned[3].error = <<>>
  /\ returned[3].result.exit_status = 2
  /\ state = "Aborted"

(***************************************************************************)
(* C15: over the life of the runner instance close() is called at most     *)
(* once on its session, and no exec_command is made on the session once it *)
(* has been closed (a run that has dispatched while the session was closed *)
(* before the run's own close is such a dispatch).                         *)
(***************************************************************************)
DispatchedAfterClose == closed /\ Len(Closes) = 0 /\ Len(Dispatched) > 0

C15_OneRunPerSession ==
  /\ closes <= 1
  /\ ~DispatchedAfterClose

(***************************************************************************)
(* C16: with k the first entry that is no Command, the ValueError is       *)
(* raised only with the loop at k, after the k-1 commands before it were   *)
(* dispatched, returned 0 and were reported; a run in which one of them    *)
(* failed ends Aborted before k, returns None and logs no unexpected       *)
(* error; a run in which all of them returned 0 ends Failed.               *)
(***************************************************************************)
IsFirstInvalid(k) ==
  /\ k \in 1..Len(sequence)
  /\ ~IsCommand(sequence[k])
  /\ \A j \in 1..(k - 1) : IsCommand(sequence[j])

C16_InvalidStepFoundLazily ==
  \A k \in 1..Len(sequence) :
    IsFirstInvalid(k) =>
      /\ (pc = "except" \/ state = "Failed") =>
           /\ idx = k
           /\ Len(returned) = k - 1
           /\ AllZero
           /\ Len(Reports) = k - 1
           /\ DispatchedCmds = BuiltPrefix(k - 1)
      /\ Returned =>
           IF AllZero
             THEN state = "Failed" /\ signal = "ValueError" /\ Len(returned) = k - 1
             ELSE /\ state = "Aborted"
                  /\ signal = "None"
                  /\ idx < k
                  /\ Len(returned) = idx
                  /\ Len(Reports) = idx
                  /\ ~HasLog("Unexpected error")

\* a first run over [Command, non-Command, ...] whose command failed remotely:
\* Aborted, and the bad entry was never looked at
C16_Witness ==
  /\ Returned
  /\ closes = 1
  /\ Len(sequence) = 3 /\ IsFirstInvalid(2)
  /\ Len(returned) = 1
  /\ returned[1].error = <<>>
  /\ returned[1].result.exit_status = 2
  /\ state = "Aborted"
  /\ signal = "None"

(***************************************************************************)
(* C17: an error in _load_config or _create_connection leaves __init__ as  *)
(* an exception and stays that way: there is no runner to call execute()   *)
(* on, so no run begins and nothing reaches the transport; after a failed  *)
(* _load_config, connect() has not been called.  A run only ever begins on *)
(* a runner whose configuration loaded and whose connect() returned.       *)
(***************************************************************************)
NothingRan ==
  /\ runs = 0
  /\ pc = "idle"
  /\ state = "Ready"
  /\ trace = <<>>
  /\ returned = <<>>
  /\ ~closed /\ closes = 0

C17_InitFailurePropagates ==
  /\ [](initError # "none" <=> init = "failed")
  /\ [](init = "failed" => NothingRan /\ ~ENABLED Execute)
  /\ [](initError = "config" => connects = 0)
  /\ [](runs > 0 => init = "ready" /\ initError = "none" /\ connects = 1)
  /\ [][init = "failed" => init' = "failed" /\ UNCHANGED vars]_vars

\* connect() was called and raised
C17_Witness ==
  /\ init = "failed"
  /\ initError = "connect"
  /\ connects = 1
  /\ NothingRan

(***************************************************************************)
(* C18: the description in a command's result, and in the "Command:"       *)
(* record logged for it, is the Command's description when that is not     *)
(* empty and the Command's text when it is; the string given to            *)
(* exec_command is the one build() gives whatever the description is.      *)
(***************************************************************************)
C18_DescriptionDefaultsToText ==
  LET sent == DispatchedCmds
      reports == Reports
  IN
    /\ \A i \in 1..Len(returned) :
         returned[i].result.description =
           (IF sequence[i].description # <<>>
              THEN sequence[i].description ELSE sequence[i].command)
    /\ Len(reports) <= Len(returned)
    /\ pc \notin {"log_result", "run_except"} => Len(reports) = Len(returned)
    /\ \A j \in 1..Len(reports) : reports[j].text = returned[j].result.description
    /\ \A i \in 1..Len(sent) :
         \A d \in WideDescriptions :
           sent[i] = build([sequence[i] EXCEPT !.description = d])

\* Command("ls", directory="/h"), without description, has been reported
\* under its text "ls"
C18_Witness ==
  /\ pc = "check"
  /\ sequence[1] = Command(<<"l", "s">>, <<>>, <<"/", "h">>)
  /\ result[1].description = <<"l", "s">>
  /\ Reports[1].text = <<"l", "s">>
  /\ DispatchedCmds[1] # <<"l", "s">>

====
